---- MODULE Spec2Model ----
(***************************************************************************)
(* R&D cost calculation engine (claims/logic/processor.py, RDProcessor).   *)
(*                                                                         *)
(* Numbers.  The engine computes with Decimal, whose products and sums are *)
(* exact for the magnitudes used here, so every quantity is an integer in  *)
(* a fixed unit:                                                           *)
(*   - monetary inputs (gross, NI, pension, bonus, PILON) : pounds         *)
(*   - R&D fractions and the EPW cap                      : 1/100          *)
(*   - the NIC uplift rate                                : 1/1000         *)
(*   - qualifying_cost, staff_costs, epw_costs,                            *)
(*     qualifying_rd_costs (amount x fraction)            : 1/100 pound    *)
(*   - staff_costs_with_nic, total_qualifying_expenditure                  *)
(*     (amount x fraction x (1 + rate))                   : 1/100000 pound *)
(***************************************************************************)
EXTENDS Integers, Sequences, FiniteSets, TLC

VARIABLES
    file,               \* what is stored at the path handed to load_data
    data,               \* RDProcessor.data
    file_type,          \* RDProcessor.file_type
    processed_results,  \* RDProcessor.processed_results
    rules,              \* RDProcessor.rules
    ret,                \* the last public call and what it returned or raised
    loaded,             \* some load_data call has returned True
    last_run,           \* what the most recent successful calculate_rd_costs returned
    row,                \* the record handed to _process_line_item
    employee_overrides, \* the override mapping handed to _process_line_item
    line_item,          \* what _process_line_item returned for row
    prev_item,          \* what it returned before row's bonus/PILON changed
    columns,            \* the column labels of a table, in table order
    mapping_config,     \* the mapping handed to apply_column_mapping
    applied,            \* the labels after each application of the mapping so far
    accounting_period_start, \* Claim.accounting_period_start, a day number
    eligible_costs,     \* Claim.eligible_costs, in pence
    r_and_d_rate,       \* what Claim.get_r_and_d_rate returned, in 1/1000
    credit_amount,      \* what Claim.calculate_credit_amount_with_rate returned
    claim,              \* the stored Claim row, None before claim_create
    line_items,         \* the stored CostLineItem rows of the claim, oldest first
    saved,              \* the results and file type last handed to _save_processed_line_items
    response,           \* the last view called and the messages it left
    db_rejects_null,    \* the exclusion_reason column refuses NULL
    cost_item           \* one CostLineItem whose tags is a list, as last saved

procVars == <<file, data, file_type, processed_results, rules, ret, loaded, last_run>>
lineVars == <<row, employee_overrides, line_item, prev_item>>
mapVars == <<columns, mapping_config, applied>>
rateVars == <<accounting_period_start, eligible_costs, r_and_d_rate, credit_amount>>

claimVars == <<claim, line_items, saved, response, db_rejects_null>>
itemVars == <<cost_item>>
dbVars == <<claimVars, itemVars>>

vars == <<procVars, lineVars, mapVars, rateVars, dbVars>>

\* Python's None, and the empty dict {}
None == [none |-> TRUE]
EmptyDict == [k \in {} |-> 0]

---------------------------------------------------------------------------
(* Bounds and input domains *)

MaxRows == 2

\* subject names in ascending string order (groupby sorts its keys)
NameOrder == <<"Bob", "Jane">>
Names == {NameOrder[i] : i \in DOMAIN NameOrder}

\* the place of a subject name in ascending order
NameIndex(n) == CHOOSE i \in DOMAIN NameOrder : NameOrder[i] = n

FileTypes == {"payroll"}

\* cell values of the uploaded table
GrossCells == {1000}
ErNICells == {100}
ErPenCells == {50}
BonusCells == {0, 200}
PILONCells == {0}
RDCells == {0, 50, 90}
DateCells == {1}

RequiredColumns == {"Name", "Gross", "ErNI", "ErPen", "Date"}
FileColumnSets ==
    { RequiredColumns \cup {"Bonus", "PILON", "R&D %"},
      RequiredColumns \cup {"Bonus", "PILON"},
      RequiredColumns \cup {"R&D %"} }

AllColumns == RequiredColumns \cup {"Bonus", "PILON", "R&D %"}

FullRow(n, g, ni, pen, b, pl, rd, d) ==
    [c \in AllColumns |->
        CASE c = "Name" -> n
          [] c = "Gross" -> g
          [] c = "ErNI" -> ni
          [] c = "ErPen" -> pen
          [] c = "Bonus" -> b
          [] c = "PILON" -> pl
          [] c = "R&D %" -> rd
          [] c = "Date" -> d]

FullRows ==
    { FullRow(n, g, ni, pen, b, pl, rd, d) :
        n \in Names, g \in GrossCells, ni \in ErNICells, pen \in ErPenCells,
        b \in BonusCells, pl \in PILONCells, rd \in RDCells, d \in DateCells }

RowsOver(cols) == { [c \in cols |-> r[c]] : r \in FullRows }

SeqsUpTo(S, n) == UNION { [1..k -> S] : k \in 0..n }

\* a readable table: named columns and rows in file order
Tables ==
    UNION { { [columns |-> cols, rows |-> rs] : rs \in SeqsUpTo(RowsOver(cols), MaxRows) } :
            cols \in FileColumnSets }

\* a path load_data cannot read: missing, empty, or of an unsupported format
UnreadableFiles == { [unreadable |-> k] : k \in {"missing", "empty", "unsupported"} }

\* a table whose gross amounts sit under the label "Salary", to be mapped
SalaryColumns == {"Name", "Salary", "ErNI", "ErPen", "Date"}
SalaryRows ==
    { [c \in SalaryColumns |-> IF c = "Salary" THEN r["Gross"] ELSE r[c]] : r \in FullRows }

\* a table with no subject column
NoNameColumns == {"Gross", "ErNI", "ErPen", "Date"}

UnmappedTables ==
    { [columns |-> SalaryColumns, rows |-> rs] : rs \in SeqsUpTo(SalaryRows, MaxRows) }
    \cup { [columns |-> NoNameColumns, rows |-> rs] :
              rs \in SeqsUpTo(RowsOver(NoNameColumns), MaxRows) }

\* a table some of whose Gross cells hold text that is no number; `text`
\* names those cells by row and column, and the number stored there is unused
TextTables ==
    UNION { { [columns |-> RequiredColumns, rows |-> rs,
               text |-> {<<i, "Gross">> : i \in S}] : S \in (SUBSET DOMAIN rs) \ {{}} } :
            rs \in SeqsUpTo(RowsOver(RequiredColumns), MaxRows) }

\* a table with a row that takes pay back: a negative gross amount
CreditGross == -500
PayColumns == RequiredColumns \cup {"Bonus", "PILON"}
CreditRows ==
    { [c \in PayColumns |-> FullRow(n, CreditGross, ni, pen, 0, 0, 0, d)[c]] :
        n \in Names, ni \in ErNICells, pen \in ErPenCells, d \in DateCells }

CreditTables ==
    { [columns |-> PayColumns, rows |-> rs] :
        rs \in { q \in SeqsUpTo(RowsOver(PayColumns) \cup CreditRows, MaxRows) :
                   \E i \in DOMAIN q : q[i] \in CreditRows } }

Files == Tables \cup UnmappedTables \cup TextTables \cup CreditTables \cup UnreadableFiles

IsTable(f) == "columns" \in DOMAIN f

---------------------------------------------------------------------------
(* Rule set: RDProcessor._load_default_rules *)

\* 'epw_cap_percentage': 0.65, in 1/100
epw_cap_percentage == 65
\* 'nic_uplift_rate': 0.138, in 1/1000
nic_uplift_rate == 138
\* the fraction _get_rd_percentage falls back to, 0.8, in 1/100
default_rd_percentage == 80

---------------------------------------------------------------------------
(* Helpers *)

Min(a, b) == IF a <= b THEN a ELSE b

\* dict.get / Series.get with a default
Get(d, key, default) == IF key \in DOMAIN d THEN d[key] ELSE default

RECURSIVE SumSeq(_)
SumSeq(s) == IF s = <<>> THEN 0 ELSE Head(s) + SumSeq(Tail(s))

Column(group, col) == [i \in DOMAIN group |-> group[i][col]]

SeqMin(s) == CHOOSE v \in {s[i] : i \in DOMAIN s} : \A j \in DOMAIN s : v <= s[j]
SeqMax(s) == CHOOSE v \in {s[i] : i \in DOMAIN s} : \A j \in DOMAIN s : v >= s[j]

---------------------------------------------------------------------------
(* RDProcessor.apply_column_mapping *)

\* mapping_config is a dict: a sequence of <<standard_field, column_name>>
\* pairs in insertion order, no standard_field twice
Range(f) == {f[i] : i \in DOMAIN f}

\* the first entry naming a column kept, instead of the last
column_mapping_first_wins(labels, mc) ==
    [ c \in {mc[i][2] : i \in DOMAIN mc} \cap labels |->
        mc[CHOOSE i \in DOMAIN mc :
              mc[i][2] = c /\ \A j \in DOMAIN mc : mc[j][2] = c => i <= j][1] ]

\* entries whose standard field is a label and whose column is not, read
\* the wrong way round
column_mapping_both_ways(labels, mc) ==
    [ c \in ({mc[i][2] : i \in DOMAIN mc} \cap labels)
            \cup ({mc[i][1] : i \in {j \in DOMAIN mc : mc[j][2] \notin labels}} \cap labels) |->
        IF c \in {mc[i][2] : i \in DOMAIN mc}
        THEN mc[CHOOSE i \in DOMAIN mc :
                  mc[i][2] = c /\ \A j \in DOMAIN mc : mc[j][2] = c => j <= i][1]
        ELSE mc[CHOOSE i \in DOMAIN mc : mc[i][1] = c][2] ]

\* the column_mapping dict the loop builds: column_name -> standard_field for
\* every entry whose column_name is a label of the table; a later entry
\* naming the same column replaces an earlier one
column_mapping(labels, mc) ==
    [ c \in {mc[i][2] : i \in DOMAIN mc} \cap labels |->
        mc[CHOOSE i \in DOMAIN mc :
              mc[i][2] = c /\ \A j \in DOMAIN mc : mc[j][2] = c => j <= i][1] ]

\* DataFrame.rename(columns=cm) on one label
Relabel(cm, c) == IF c \in DOMAIN cm THEN cm[c] ELSE c

\* the cells marked as text
TextCells(d) == IF "text" \in DOMAIN d THEN d.text ELSE {}

\* DataFrame.rename(columns=cm): the labels change, the cells stay
RenameTable(d, cm) ==
    LET new_columns == {Relabel(cm, c) : c \in d.columns}
        source(k) == CHOOSE c \in d.columns : Relabel(cm, c) = k
        new_rows == [i \in DOMAIN d.rows |-> [k \in new_columns |-> d.rows[i][source(k)]]]
    IN  IF "text" \in DOMAIN d
        THEN [columns |-> new_columns, rows |-> new_rows,
              text |-> {<<t[1], Relabel(cm, t[2])>> : t \in d.text}]
        ELSE [columns |-> new_columns, rows |-> new_rows]

---------------------------------------------------------------------------
(* RDProcessor.aggregate_employee_data *)

\* the keys in the order the subjects first appear in the table
GroupKeys_in_row_order(d) ==
    LET first(n) == CHOOSE i \in DOMAIN d.rows :
                        /\ d.rows[i]["Name"] = n
                        /\ \A j \in DOMAIN d.rows : d.rows[j]["Name"] = n => i <= j
        keys == SelectSeq(NameOrder, LAMBDA n : \E i \in DOMAIN d.rows : d.rows[i]["Name"] = n)
    IN  IF Len(keys) = 2 /\ first(keys[2]) < first(keys[1])
        THEN <<keys[2], keys[1]>> ELSE keys

\* data.groupby('Name'): the keys in ascending order
GroupKeys(d) ==
    SelectSeq(NameOrder, LAMBDA n : \E i \in DOMAIN d.rows : d.rows[i]["Name"] = n)

\* the rows of one group, in the table's row order
GroupOf(d, employee_name) ==
    SelectSeq(d.rows, LAMBDA r : r["Name"] = employee_name)

\* the positions in the table of the rows of one group
GroupIndices(d, employee_name) ==
    {i \in DOMAIN d.rows : d.rows[i]["Name"] = employee_name}

\* the rows of the group whose cell in column col holds text
TextRowsOf(d, employee_name, col) ==
    {i \in GroupIndices(d, employee_name) : <<i, col>> \in TextCells(d)}

AmountColumns == {"Gross", "ErNI", "ErPen", "Bonus", "PILON"}

\* the group's first cell taken for the whole group
ColumnSum_first_row(d, employee_name, col) ==
    IF TextRowsOf(d, employee_name, col) = {}
    THEN GroupOf(d, employee_name)[1][col]
    ELSE [text |-> Cardinality(TextRowsOf(d, employee_name, col))]

\* group[col].sum(): the sum of numbers; of text cells, their concatenation
\* (a group mixing the two raises, see GroupError)
ColumnSum(d, employee_name, col) ==
    IF TextRowsOf(d, employee_name, col) = {}
    THEN SumSeq(Column(GroupOf(d, employee_name), col))
    ELSE [text |-> Cardinality(TextRowsOf(d, employee_name, col))]

\* a number added to text
MixedCells(d, employee_name, col) ==
    /\ TextRowsOf(d, employee_name, col) # {}
    /\ TextRowsOf(d, employee_name, col) # GroupIndices(d, employee_name)

\* taking the group's first row instead
GroupRdPercentage_first(d, group) ==
    IF "R&D %" \in d.columns THEN group[1]["R&D %"] ELSE 0

\* group['R&D %'].iloc[-1] if the column exists, else 0.0
GroupRdPercentage(d, group) ==
    IF "R&D %" \in d.columns THEN group[Len(group)]["R&D %"] ELSE 0

AggregatedRecord(d, employee_name) ==
    LET group == GroupOf(d, employee_name)
        period_count == Len(group)
    IN  [ employee_name |-> employee_name,
          gross_cost |-> ColumnSum(d, employee_name, "Gross"),
          er_ni_amount |-> ColumnSum(d, employee_name, "ErNI"),
          er_pension_amount |-> ColumnSum(d, employee_name, "ErPen"),
          bonus_amount |-> IF "Bonus" \in d.columns
                           THEN ColumnSum(d, employee_name, "Bonus") ELSE 0,
          pilon_amount |-> IF "PILON" \in d.columns
                           THEN ColumnSum(d, employee_name, "PILON") ELSE 0,
          rd_percentage |-> GroupRdPercentage(d, group),
          start_date |-> SeqMin(Column(group, "Date")),
          end_date |-> SeqMax(Column(group, "Date")),
          period_count |-> period_count,
          description |-> <<"Aggregated payroll data for", employee_name, period_count>> ]

\* the exception the loop body raises on one group, or None: the statements
\* in their order, a missing column a KeyError, a mixed sum a TypeError
GroupError(d, employee_name) ==
    IF "Gross" \notin d.columns THEN [raised |-> "KeyError"]
    ELSE IF MixedCells(d, employee_name, "Gross") THEN [raised |-> "TypeError"]
    ELSE IF "ErNI" \notin d.columns THEN [raised |-> "KeyError"]
    ELSE IF MixedCells(d, employee_name, "ErNI") THEN [raised |-> "TypeError"]
    ELSE IF "ErPen" \notin d.columns THEN [raised |-> "KeyError"]
    ELSE IF MixedCells(d, employee_name, "ErPen") THEN [raised |-> "TypeError"]
    ELSE IF "Bonus" \in d.columns /\ MixedCells(d, employee_name, "Bonus")
         THEN [raised |-> "TypeError"]
    ELSE IF "PILON" \in d.columns /\ MixedCells(d, employee_name, "PILON")
         THEN [raised |-> "TypeError"]
    ELSE IF "Date" \notin d.columns THEN [raised |-> "KeyError"]
    ELSE None

\* the exception aggregate_employee_data raises on d, or None
AggregateError(d) ==
    IF d = None THEN [raised |-> "ValueError"]
    ELSE IF "Name" \notin d.columns THEN [raised |-> "KeyError"]
    ELSE LET keys == GroupKeys(d)
             failing == {i \in DOMAIN keys : GroupError(d, keys[i]) # None}
         IN  IF failing = {} THEN None
             ELSE GroupError(d, keys[CHOOSE i \in failing : \A j \in failing : i <= j])

\* the returned frame: one record per group, in key order
aggregate_employee_data(d) ==
    LET keys == GroupKeys(d)
    IN  [i \in DOMAIN keys |-> AggregatedRecord(d, keys[i])]

---------------------------------------------------------------------------
(* RDProcessor._get_rd_percentage *)

\* the data value consulted before the override
_get_rd_percentage_data_first(employee_name, overrides, data_rd_percentage) ==
    IF data_rd_percentage > 0 THEN data_rd_percentage
    ELSE IF employee_name \in DOMAIN overrides THEN overrides[employee_name]
    ELSE default_rd_percentage

_get_rd_percentage(employee_name, overrides, data_rd_percentage) ==
    IF employee_name \in DOMAIN overrides THEN overrides[employee_name]
    ELSE IF data_rd_percentage > 0 THEN data_rd_percentage
    ELSE default_rd_percentage

---------------------------------------------------------------------------
(* RDProcessor._process_line_item *)

\* the row.get(...) extractions, each with its default
Extract(r) ==
    [ employee_name |-> Get(r, "employee_name", ""),
      gross_cost |-> Get(r, "gross_cost", 0),
      er_ni_amount |-> Get(r, "er_ni_amount", 0),
      er_pension_amount |-> Get(r, "er_pension_amount", 0),
      bonus_amount |-> Get(r, "bonus_amount", 0),
      pilon_amount |-> Get(r, "pilon_amount", 0),
      description |-> Get(r, "description", ""),
      is_epw |-> Get(r, "is_epw", FALSE),
      epw_connected |-> Get(r, "epw_connected", FALSE),
      rd_percentage |-> Get(r, "rd_percentage", 0) ]

\* bonus and PILON counted into the base
EligibleAmount_with_bonus(v) ==
    v.gross_cost + v.er_ni_amount + v.er_pension_amount + v.bonus_amount + v.pilon_amount

\* the employer's contributions left out of the base
EligibleAmount_gross_only(v) == v.gross_cost

\* qualifying_base = gross + ER NI + ER pension; eligible_amount = qualifying_base
EligibleAmount(v) == v.gross_cost + v.er_ni_amount + v.er_pension_amount

\* excluded_amount: PILON if > 0, plus bonus if > 0
ExcludedAmount(v) ==
    (IF v.pilon_amount > 0 THEN v.pilon_amount ELSE 0)
    + (IF v.bonus_amount > 0 THEN v.bonus_amount ELSE 0)

\* the Bonus entry appended before the PILON entry
ExclusionReasons_bonus_first(v) ==
    (IF v.bonus_amount > 0 THEN << <<"Bonus", v.bonus_amount>> >> ELSE <<>>)
    \o (IF v.pilon_amount > 0 THEN << <<"PILON", v.pilon_amount>> >> ELSE <<>>)

\* exclusion_reasons: "PILON: <amount>" then "Bonus: <amount>"
ExclusionReasons(v) ==
    (IF v.pilon_amount > 0 THEN << <<"PILON", v.pilon_amount>> >> ELSE <<>>)
    \o (IF v.bonus_amount > 0 THEN << <<"Bonus", v.bonus_amount>> >> ELSE <<>>)

\* the cap never applied
QualifyingCost_no_cap(v, eligible_amount, rd_percentage) ==
    eligible_amount * rd_percentage

\* an item with an excluded component given no qualifying cost
QualifyingCost_zero_excluded(v, eligible_amount, rd_percentage) ==
    IF v.pilon_amount > 0 \/ v.bonus_amount > 0 THEN 0
    ELSE IF v.is_epw
         THEN Min(eligible_amount * rd_percentage, eligible_amount * epw_cap_percentage)
         ELSE eligible_amount * rd_percentage

\* qualifying_cost = eligible_amount * rd_percentage, capped when is_epw
QualifyingCost(v, eligible_amount, rd_percentage) ==
    IF v.is_epw
    THEN Min(eligible_amount * rd_percentage, eligible_amount * epw_cap_percentage)
    ELSE eligible_amount * rd_percentage

_process_line_item(r, overrides) ==
    LET v == Extract(r)
        rd_percentage == _get_rd_percentage(v.employee_name, overrides, v.rd_percentage)
        eligible_amount == EligibleAmount(v)
        excluded_amount == ExcludedAmount(v)
        exclusion_reasons == ExclusionReasons(v)
    IN  [ employee_name |-> v.employee_name,
          description |-> v.description,
          gross_cost |-> v.gross_cost,
          er_ni_amount |-> v.er_ni_amount,
          er_pension_amount |-> v.er_pension_amount,
          bonus_amount |-> v.bonus_amount,
          pilon_amount |-> v.pilon_amount,
          eligible_amount |-> eligible_amount,
          excluded_amount |-> excluded_amount,
          rd_percentage |-> rd_percentage,
          qualifying_cost |-> QualifyingCost(v, eligible_amount, rd_percentage),
          is_epw |-> v.is_epw,
          epw_connected |-> v.epw_connected,
          excluded |-> excluded_amount > 0,
          exclusion_reason |-> IF exclusion_reasons # <<>> THEN exclusion_reasons ELSE None ]

---------------------------------------------------------------------------
(* RDProcessor.calculate_rd_costs *)

\* the results dict before the loop
InitialResults ==
    [ total_costs |-> 0,
      qualifying_rd_costs |-> 0,
      epw_costs |-> 0,
      staff_costs |-> 0,
      excluded_costs |-> 0,
      grant_adjustments |-> 0,
      line_items |-> <<>> ]

\* an excluded item listed but left out of the totals
AddLineItem_skips_excluded(results, item) ==
    IF item.excluded
    THEN [ results EXCEPT !.line_items = Append(@, item),
                          !.excluded_costs = @ + item.gross_cost ]
    ELSE [ results EXCEPT
             !.line_items = Append(@, item),
             !.total_costs = @ + item.gross_cost,
             !.qualifying_rd_costs = @ + item.qualifying_cost,
             !.epw_costs = IF item.is_epw THEN @ + item.qualifying_cost ELSE @,
             !.staff_costs = IF item.is_epw THEN @ ELSE @ + item.qualifying_cost ]

\* excluded_costs taking the excluded components instead of the gross cost
AddLineItem_excluded_amount(results, item) ==
    [ results EXCEPT
        !.line_items = Append(@, item),
        !.total_costs = @ + item.gross_cost,
        !.qualifying_rd_costs = @ + item.qualifying_cost,
        !.epw_costs = IF item.is_epw THEN @ + item.qualifying_cost ELSE @,
        !.staff_costs = IF item.is_epw THEN @ ELSE @ + item.qualifying_cost,
        !.excluded_costs = IF item.excluded THEN @ + item.excluded_amount ELSE @ ]

\* one pass of the loop body: append the item and add it to the totals
AddLineItem(results, item) ==
    [ results EXCEPT
        !.line_items = Append(@, item),
        !.total_costs = @ + item.gross_cost,
        !.qualifying_rd_costs = @ + item.qualifying_cost,
        !.epw_costs = IF item.is_epw THEN @ + item.qualifying_cost ELSE @,
        !.staff_costs = IF item.is_epw THEN @ ELSE @ + item.qualifying_cost,
        !.excluded_costs = IF item.excluded THEN @ + item.gross_cost ELSE @ ]

RECURSIVE ProcessRows(_, _, _)
ProcessRows(results, aggregated_data, overrides) ==
    IF aggregated_data = <<>> THEN results
    ELSE ProcessRows(AddLineItem(results, _process_line_item(Head(aggregated_data), overrides)),
                     Tail(aggregated_data), overrides)

\* the uplift left out of the final figure
WithFinalTotals_no_uplift(results) ==
    [ k \in DOMAIN results \cup {"staff_costs_with_nic", "total_qualifying_expenditure"} |->
        IF k = "staff_costs_with_nic" THEN results.staff_costs * (1000 + nic_uplift_rate)
        ELSE IF k = "total_qualifying_expenditure"
             THEN results.staff_costs * 1000 + results.epw_costs * 1000
        ELSE results[k] ]

\* staff_costs_with_nic = staff_costs * (1 + nic_uplift_rate);
\* total_qualifying_expenditure = staff_costs_with_nic + epw_costs
WithFinalTotals(results) ==
    [ k \in DOMAIN results \cup {"staff_costs_with_nic", "total_qualifying_expenditure"} |->
        IF k = "staff_costs_with_nic" THEN results.staff_costs * (1000 + nic_uplift_rate)
        ELSE IF k = "total_qualifying_expenditure"
             THEN results.staff_costs * (1000 + nic_uplift_rate) + results.epw_costs * 1000
        ELSE results[k] ]

\* the first aggregated record _process_line_item cannot convert: one of its
\* amounts is text, and Decimal(str(...)) raises InvalidOperation; 0 if none
FailingIndex(d) ==
    LET keys == GroupKeys(d)
        failing == {i \in DOMAIN keys :
                      \E col \in AmountColumns \cap d.columns :
                          TextRowsOf(d, keys[i], col) # {}}
    IN  IF failing = {} THEN 0
        ELSE CHOOSE i \in failing : \A j \in failing : i <= j

\* the exception calculate_rd_costs raises on d, or None
CalculateError(d) ==
    IF AggregateError(d) # None THEN AggregateError(d)
    ELSE IF FailingIndex(d) > 0 THEN [raised |-> "InvalidOperation"]
    ELSE None

\* employee_overrides or {}
OrEmpty(overrides) == IF overrides = None THEN EmptyDict ELSE overrides

\* the results of a run that raises nothing
calculate_rd_costs(d, overrides) ==
    WithFinalTotals(ProcessRows(InitialResults, aggregate_employee_data(d), OrEmpty(overrides)))

---------------------------------------------------------------------------
(* RDProcessor.generate_audit_trail *)

\* float(Decimal): the double nearest to the decimal, kept apart from the
\* decimal itself; distinct decimals of up to 15 digits give distinct doubles
ToFloat(x) == [float |-> x]

\* datetime.now().isoformat(): whatever the clock reads
Timestamp == "now"

StartedEntry(results) ==
    [ timestamp |-> Timestamp,
      action |-> "calculation_started",
      details |-> <<"Processing", Len(results.line_items), "line items">> ]

ItemEntry(item) ==
    [ timestamp |-> Timestamp,
      action |-> "line_item_processed",
      employee |-> item.employee_name,
      gross_cost |-> ToFloat(item.gross_cost),
      qualifying_cost |-> ToFloat(item.qualifying_cost),
      rd_percentage |-> item.rd_percentage,
      excluded |-> item.excluded,
      exclusion_reason |-> item.exclusion_reason ]

\* the entries of the items in reverse
generate_audit_trail_reversed(results) ==
    IF results = EmptyDict THEN <<>>
    ELSE <<StartedEntry(results)>>
         \o [i \in DOMAIN results.line_items |->
                ItemEntry(results.line_items[Len(results.line_items) + 1 - i])]

generate_audit_trail(results) ==
    IF results = EmptyDict THEN <<>>
    ELSE <<StartedEntry(results)>>
         \o [i \in DOMAIN results.line_items |-> ItemEntry(results.line_items[i])]

---------------------------------------------------------------------------
(* The processor as a state machine *)

OverrideCells == {0, 150}
OverrideMaps == UNION { [S -> OverrideCells] : S \in SUBSET Names }
CallOverrides == {None, EmptyDict} \cup { m \in OverrideMaps : Cardinality(DOMAIN m) = 1 }

\* the mappings handed to apply_column_mapping: an empty one, one naming
\* columns by their own labels, one mapping "Salary" to Gross, and one that
\* takes the Gross column away
CallMappings ==
    { <<>>,
      << <<"Name", "Name">>, <<"Gross", "Gross">> >>,
      << <<"Gross", "Salary">> >>,
      << <<"Salary", "Gross">> >> }

\* _load_default_rules
DefaultRules ==
    [ epw_cap_percentage |-> epw_cap_percentage,
      nic_uplift_rate |-> nic_uplift_rate,
      minimum_rd_percentage |-> 0,
      maximum_rd_percentage |-> 100,
      excluded_cost_keywords |-> <<>>,
      grant_adjustment |-> TRUE,
      connected_epw_rules |-> [apply_65_percent_cap |-> TRUE, separate_calculation |-> TRUE] ]

NoLineState ==
    /\ row = None
    /\ employee_overrides = None
    /\ line_item = None
    /\ prev_item = None

NoMapState ==
    /\ columns = <<>>
    /\ mapping_config = <<>>
    /\ applied = <<>>

NoRateState ==
    /\ accounting_period_start = 0
    /\ eligible_costs = 0
    /\ r_and_d_rate = None
    /\ credit_amount = None

NoClaimState ==
    /\ claim = None
    /\ line_items = <<>>
    /\ saved = None
    /\ response = [op |-> "none", messages |-> <<>>, qualifying_expenditure |-> None]
    /\ db_rejects_null = FALSE

NoItemState == cost_item = None

NoDbState == NoClaimState /\ NoItemState

\* RDProcessor.__init__ with the default rules, and a file at the path
Init ==
    /\ file \in Files
    /\ data = None
    /\ file_type = None
    /\ processed_results = EmptyDict
    /\ rules = DefaultRules
    /\ ret = [op |-> "__init__"]
    /\ loaded = FALSE
    /\ last_run = None
    /\ NoLineState
    /\ NoMapState
    /\ NoRateState
    /\ NoDbState

\* data assigned before the file is checked
LoadData_assigns_first(ft) ==
    /\ IF IsTable(file)
       THEN /\ data' = file
            /\ file_type' = [value |-> ft]
            /\ ret' = [op |-> "load_data", value |-> TRUE]
            /\ loaded' = TRUE
       ELSE /\ data' = [columns |-> {}, rows |-> <<>>]
            /\ UNCHANGED <<file_type, loaded>>
            /\ ret' = [op |-> "load_data", value |-> FALSE]
    /\ UNCHANGED <<file, processed_results, rules, last_run>>
    /\ UNCHANGED <<lineVars, mapVars, rateVars, dbVars>>

LoadData(ft) ==
    /\ IF IsTable(file)
       THEN /\ data' = file
            /\ file_type' = [value |-> ft]
            /\ ret' = [op |-> "load_data", value |-> TRUE]
            /\ loaded' = TRUE
       ELSE /\ UNCHANGED <<data, file_type, loaded>>
            /\ ret' = [op |-> "load_data", value |-> FALSE]
    /\ UNCHANGED <<file, processed_results, rules, last_run>>
    /\ UNCHANGED <<lineVars, mapVars, rateVars, dbVars>>

\* the exception let through to the caller
ApplyColumnMapping_raising(mc) ==
    /\ IF data = None
       THEN /\ ret' = [op |-> "apply_column_mapping", raised |-> "AttributeError"]
            /\ UNCHANGED data
       ELSE /\ data' = RenameTable(data, column_mapping(data.columns, mc))
            /\ ret' = [op |-> "apply_column_mapping", raised |-> "", value |-> TRUE]
    /\ UNCHANGED <<file, file_type, processed_results, rules, loaded, last_run>>
    /\ UNCHANGED <<lineVars, mapVars, rateVars, dbVars>>

\* with no data, self.data.columns raises; the handler prints and returns False
ApplyColumnMapping(mc) ==
    /\ IF data = None
       THEN /\ ret' = [op |-> "apply_column_mapping", raised |-> "", value |-> FALSE]
            /\ UNCHANGED data
       ELSE /\ data' = RenameTable(data, column_mapping(data.columns, mc))
            /\ ret' = [op |-> "apply_column_mapping", raised |-> "", value |-> TRUE]
    /\ UNCHANGED <<file, file_type, processed_results, rules, loaded, last_run>>
    /\ UNCHANGED <<lineVars, mapVars, rateVars, dbVars>>

\* a table without the subject column taken as one with no subjects
Aggregate_no_key_check ==
    /\ ret' = IF data # None /\ "Name" \notin data.columns
              THEN [op |-> "aggregate_employee_data", raised |-> "", value |-> <<>>]
              ELSE IF AggregateError(data) # None
              THEN [op |-> "aggregate_employee_data", raised |-> AggregateError(data).raised]
              ELSE [op |-> "aggregate_employee_data", raised |-> "",
                    value |-> aggregate_employee_data(data)]
    /\ UNCHANGED <<file, data, file_type, processed_results, rules, loaded, last_run>>
    /\ UNCHANGED <<lineVars, mapVars, rateVars, dbVars>>

Aggregate ==
    /\ ret' = IF AggregateError(data) # None
              THEN [op |-> "aggregate_employee_data", raised |-> AggregateError(data).raised]
              ELSE [op |-> "aggregate_employee_data", raised |-> "",
                    value |-> aggregate_employee_data(data)]
    /\ UNCHANGED <<file, data, file_type, processed_results, rules, loaded, last_run>>
    /\ UNCHANGED <<lineVars, mapVars, rateVars, dbVars>>

\* the call repeats the one just made: same operation, same overrides, and
\* that one returned (no other call in between, so the data is the same)
Repeats(overrides) ==
    /\ ret.op = "calculate_rd_costs"
    /\ ret.raised = ""
    /\ ret.overrides = overrides

\* what a calculate_rd_costs call leaves in ret; `before` is the result of
\* the call it repeats
CalcReturn(overrides, raised, value) ==
    [ op |-> "calculate_rd_costs", overrides |-> overrides,
      raised |-> raised, value |-> value,
      repeats |-> Repeats(overrides),
      before |-> IF Repeats(overrides) THEN ret.value ELSE None ]

\* each run adding onto the totals and items the previous run left
Calculate_accumulating(overrides) ==
    /\ IF CalculateError(data) # None
       THEN /\ ret' = CalcReturn(overrides, CalculateError(data).raised, None)
            /\ UNCHANGED <<processed_results, last_run>>
       ELSE LET start == IF processed_results = EmptyDict THEN InitialResults
                         ELSE [k \in DOMAIN InitialResults |-> processed_results[k]]
                results == WithFinalTotals(ProcessRows(start, aggregate_employee_data(data),
                                                       OrEmpty(overrides)))
            IN  /\ processed_results' = results
                /\ last_run' = results
                /\ ret' = CalcReturn(overrides, "", results)
    /\ UNCHANGED <<file, data, file_type, rules, loaded>>
    /\ UNCHANGED <<lineVars, mapVars, rateVars, dbVars>>

\* the results kept on the processor as the loop fills them
Calculate_stores_as_it_goes(overrides) ==
    /\ IF CalculateError(data) # None
       THEN /\ ret' = CalcReturn(overrides, CalculateError(data).raised, None)
            /\ processed_results' =
                 IF AggregateError(data) # None THEN processed_results
                 ELSE ProcessRows(InitialResults,
                                  SubSeq(aggregate_employee_data(data), 1, FailingIndex(data) - 1),
                                  OrEmpty(overrides))
            /\ UNCHANGED last_run
       ELSE LET results == calculate_rd_costs(data, overrides)
            IN  /\ processed_results' = results
                /\ last_run' = results
                /\ ret' = CalcReturn(overrides, "", results)
    /\ UNCHANGED <<file, data, file_type, rules, loaded>>
    /\ UNCHANGED <<lineVars, mapVars, rateVars, dbVars>>

Calculate(overrides) ==
    /\ IF CalculateError(data) # None
       THEN /\ ret' = CalcReturn(overrides, CalculateError(data).raised, None)
            /\ UNCHANGED <<processed_results, last_run>>
       ELSE LET results == calculate_rd_costs(data, overrides)
            IN  /\ processed_results' = results
                /\ last_run' = results
                /\ ret' = CalcReturn(overrides, "", results)
    /\ UNCHANGED <<file, data, file_type, rules, loaded>>
    /\ UNCHANGED <<lineVars, mapVars, rateVars, dbVars>>

\* the trail built, and the stored results emptied
GenerateAuditTrail_consuming ==
    /\ ret' = [op |-> "generate_audit_trail", value |-> generate_audit_trail(processed_results)]
    /\ processed_results' = EmptyDict
    /\ UNCHANGED <<file, data, file_type, rules, loaded, last_run>>
    /\ UNCHANGED <<lineVars, mapVars, rateVars, dbVars>>

GenerateAuditTrail ==
    /\ ret' = [op |-> "generate_audit_trail", value |-> generate_audit_trail(processed_results)]
    /\ UNCHANGED <<file, data, file_type, processed_results, rules, loaded, last_run>>
    /\ UNCHANGED <<lineVars, mapVars, rateVars, dbVars>>

Next ==
    \/ \E ft \in FileTypes : LoadData(ft)
    \/ \E mc \in CallMappings : ApplyColumnMapping(mc)
    \/ Aggregate
    \/ \E ov \in CallOverrides : Calculate(ov)
    \/ GenerateAuditTrail

Spec == Init /\ [][Next]_vars

---------------------------------------------------------------------------
(* _process_line_item on its own: every record and every override mapping *)

LineGross == {1000, 2000}
LineErNI == {0, 100}
LineErPen == {0}
LineBonus == {-100, 0, 200}
LinePILON == {0, 300}
LineRd == {0, 50, 100, 150}

BaseKeys == {"employee_name", "gross_cost", "er_ni_amount", "er_pension_amount",
             "bonus_amount", "pilon_amount", "description"}
LineKeySets ==
    { BaseKeys \cup rdk \cup epwk :
        rdk \in {{}, {"rd_percentage"}},
        epwk \in {{}, {"is_epw", "epw_connected"}} }

FullRecord(n, g, ni, pen, b, pl, rd, epw, conn) ==
    [k \in BaseKeys \cup {"rd_percentage", "is_epw", "epw_connected"} |->
        CASE k = "employee_name" -> n
          [] k = "gross_cost" -> g
          [] k = "er_ni_amount" -> ni
          [] k = "er_pension_amount" -> pen
          [] k = "bonus_amount" -> b
          [] k = "pilon_amount" -> pl
          [] k = "description" -> <<"Aggregated payroll data for", n, 1>>
          [] k = "rd_percentage" -> rd
          [] k = "is_epw" -> epw
          [] k = "epw_connected" -> conn]

\* is_epw and epw_connected, when given: staff, unconnected EPW, connected EPW
EpwFlags == {<<FALSE, FALSE>>, <<TRUE, FALSE>>, <<TRUE, TRUE>>}

LineRecords ==
    UNION { { [k \in ks |-> r[k]] :
                r \in { FullRecord(n, g, ni, pen, b, pl, rd, f[1], f[2]) :
                          n \in Names, g \in LineGross, ni \in LineErNI, pen \in LineErPen,
                          b \in LineBonus, pl \in LinePILON, rd \in LineRd, f \in EpwFlags } } :
            ks \in LineKeySets }

NoProcessorState ==
    /\ file = [unreadable |-> "missing"]
    /\ data = None
    /\ file_type = None
    /\ processed_results = EmptyDict
    /\ rules = DefaultRules
    /\ ret = [op |-> "__init__"]
    /\ loaded = FALSE
    /\ last_run = None

LineInit ==
    /\ NoProcessorState
    /\ NoMapState
    /\ NoRateState
    /\ NoDbState
    /\ row \in LineRecords
    /\ employee_overrides \in OverrideMaps
    /\ line_item = None
    /\ prev_item = None

ProcessLineItem ==
    /\ line_item = None
    /\ line_item' = _process_line_item(row, employee_overrides)
    /\ UNCHANGED <<row, employee_overrides, prev_item>>
    /\ UNCHANGED <<procVars, mapVars, rateVars, dbVars>>

\* the same record with another bonus and PILON amount, processed again
ProcessAmended(b, pl) ==
    /\ line_item # None
    /\ <<b, pl>> # <<row["bonus_amount"], row["pilon_amount"]>>
    /\ row' = [row EXCEPT !["bonus_amount"] = b, !["pilon_amount"] = pl]
    /\ prev_item' = line_item
    /\ line_item' = _process_line_item(row', employee_overrides)
    /\ UNCHANGED employee_overrides
    /\ UNCHANGED <<procVars, mapVars, rateVars, dbVars>>

LineNext ==
    \/ ProcessLineItem
    \/ \E b \in LineBonus, pl \in LinePILON : ProcessAmended(b, pl)

SpecLine == LineInit /\ [][LineNext]_vars

---------------------------------------------------------------------------
(* apply_column_mapping on the column labels alone: repeated applications
   of one mapping, the labels kept in column order so that two columns may
   come to carry the same label *)

MaxColumns == 2
MaxApplications == 2

\* the standard fields a mapping names, and the labels a file may carry
MapFields == {"Gross", "ErNI"}
MapLabels == {"Gross", "ErNI", "Salary", "Pay"}

\* the labels of a file as read: no label twice
ColumnLists ==
    { cs \in SeqsUpTo(MapLabels, MaxColumns) :
        \A i, j \in DOMAIN cs : i # j => cs[i] # cs[j] }

\* a mapping dict: each standard field at most once, in insertion order
MappingConfigs ==
    { mc \in SeqsUpTo(MapFields \X MapLabels, Cardinality(MapFields)) :
        \A i, j \in DOMAIN mc : i # j => mc[i][1] # mc[j][1] }

\* DataFrame.rename(columns=cm) on the labels
rename_columns(cs, cm) == [i \in DOMAIN cs |-> Relabel(cm, cs[i])]

MapInit ==
    /\ NoProcessorState
    /\ NoLineState
    /\ NoRateState
    /\ NoDbState
    /\ columns \in ColumnLists
    /\ mapping_config \in MappingConfigs
    /\ applied = <<>>

\* one more apply_column_mapping(mapping_config); applied keeps the labels
\* each call found
ApplyMapping ==
    /\ Len(applied) < MaxApplications
    /\ columns' = rename_columns(columns, column_mapping(Range(columns), mapping_config))
    /\ applied' = Append(applied, columns)
    /\ ret' = [op |-> "apply_column_mapping", raised |-> "", value |-> TRUE]
    /\ UNCHANGED <<file, data, file_type, processed_results, rules, loaded, last_run>>
    /\ UNCHANGED <<mapping_config, lineVars, rateVars, dbVars>>

MapNext == ApplyMapping

SpecMap == MapInit /\ [][MapNext]_vars

---------------------------------------------------------------------------
(* Claim.get_r_and_d_rate and Claim.calculate_credit_amount_with_rate.
   Dates are day numbers counted from 1 January 2023; rates are in 1/1000. *)

MaxDay == 180

\* timezone.datetime(2023, 4, 1).date(): 31 + 28 + 31 days after 1 January
rate_change_date == 90

PeriodStarts == 0..MaxDay
EligibleCosts == {0, 100000}

get_r_and_d_rate(start) == IF start <= rate_change_date THEN 145 ELSE 100

RateInit ==
    /\ NoProcessorState
    /\ NoLineState
    /\ NoMapState
    /\ NoDbState
    /\ accounting_period_start \in PeriodStarts
    /\ eligible_costs \in EligibleCosts
    /\ r_and_d_rate = None
    /\ credit_amount = None

GetRate ==
    /\ r_and_d_rate' = [value |-> get_r_and_d_rate(accounting_period_start)]
    /\ UNCHANGED <<accounting_period_start, eligible_costs, credit_amount>>
    /\ UNCHANGED <<procVars, lineVars, mapVars, dbVars>>

CalculateCreditWithRate ==
    /\ credit_amount' = [value |-> eligible_costs * get_r_and_d_rate(accounting_period_start)]
    /\ UNCHANGED <<accounting_period_start, eligible_costs, r_and_d_rate>>
    /\ UNCHANGED <<procVars, lineVars, mapVars, dbVars>>

RateNext == GetRate \/ CalculateCreditWithRate

SpecRate == RateInit /\ [][RateNext]_vars

---------------------------------------------------------------------------
(* CostLineItem (claims/models.py): the stored line item and its save().
   gross_amount is in pounds, r_and_d_percentage in percent, and
   eligible_amount in 1/10000 pound, the unit of
   gross_amount * r_and_d_percentage / 100 * Decimal('0.65').
   tags is a JSON value: a list of strings (the field's default) or a dict *)

TagsList(seq) == [list |-> seq]
TagsDict(d) == [dict |-> d]
IsList(tags) == "list" \in DOMAIN tags

\* t in tags: an element of a list, a key of a dict
InTags(t, tags) ==
    IF IsList(tags) THEN \E i \in DOMAIN tags.list : tags.list[i] = t
    ELSE t \in DOMAIN tags.dict

\* list.remove: the first occurrence taken out
RemoveTag(seq, t) ==
    LET first == CHOOSE i \in DOMAIN seq : seq[i] = t /\ \A j \in 1..(i - 1) : seq[j] # t
    IN  SubSeq(seq, 1, first - 1) \o SubSeq(seq, first + 1, Len(seq))

\* Decimal('0.65'), in 1/100
epw_cap_factor == 65

\* n / d rounded to the nearest integer, ties to the even one
RoundHalfEven(n, d) ==
    LET q == n \div d
        r == n % d
    IN  IF 2 * r < d THEN q
        ELSE IF 2 * r > d THEN q + 1
        ELSE IF q % 2 = 0 THEN q ELSE q + 1

\* DecimalField(decimal_places=2) as written to its column
ToColumn(amount) == 100 * RoundHalfEven(amount, 100)

\* the eligible amount kept as it was given when the item is excluded
BeforeSave_keeps_excluded_amount(self) ==
    IF ~self.is_excluded
    THEN LET base_amount == self.gross_amount * self.r_and_d_percentage
         IN  IF self.type = "epw" /\ ~self.connected
             THEN IF ~InTags("epw_capped", self.tags)
                  THEN IF IsList(self.tags)
                       THEN [ self EXCEPT !.eligible_amount = base_amount * epw_cap_factor,
                                          !.tags = TagsList(Append(@.list, "epw_capped")) ]
                       ELSE [raised |-> "AttributeError"]
                  ELSE [ self EXCEPT !.eligible_amount = base_amount * epw_cap_factor ]
             ELSE IF InTags("epw_capped", self.tags)
                  THEN IF IsList(self.tags)
                       THEN [ self EXCEPT !.eligible_amount = base_amount * 100,
                                          !.tags = TagsList(RemoveTag(@.list, "epw_capped")) ]
                       ELSE [raised |-> "AttributeError"]
                  ELSE [ self EXCEPT !.eligible_amount = base_amount * 100 ]
    ELSE self

\* the part of save() before super().save(): the instance as it is handed to
\* the database, or the exception raised on the way.  A dict has neither
\* append nor remove
BeforeSave(self) ==
    IF ~self.is_excluded
    THEN LET base_amount == self.gross_amount * self.r_and_d_percentage
         IN  IF self.type = "epw" /\ ~self.connected
             THEN IF ~InTags("epw_capped", self.tags)
                  THEN IF IsList(self.tags)
                       THEN [ self EXCEPT !.eligible_amount = base_amount * epw_cap_factor,
                                          !.tags = TagsList(Append(@.list, "epw_capped")) ]
                       ELSE [raised |-> "AttributeError"]
                  ELSE [ self EXCEPT !.eligible_amount = base_amount * epw_cap_factor ]
             ELSE IF InTags("epw_capped", self.tags)
                  THEN IF IsList(self.tags)
                       THEN [ self EXCEPT !.eligible_amount = base_amount * 100,
                                          !.tags = TagsList(RemoveTag(@.list, "epw_capped")) ]
                       ELSE [raised |-> "AttributeError"]
                  ELSE [ self EXCEPT !.eligible_amount = base_amount * 100 ]
    ELSE [ self EXCEPT !.eligible_amount = 0 ]

Raised(x) == "raised" \in DOMAIN x

\* the row super().save() writes
Row(self) == [ self EXCEPT !.eligible_amount = ToColumn(@) ]

---------------------------------------------------------------------------
(* One CostLineItem with list tags, created and then edited and saved again
   through the model (the admin, the ORM) *)

ItemTypes == {"staff", "epw"}
ItemGross == {1000, 2000}
ItemPercentages == {0, 50, 100}
\* tags the item is created with
ItemTags == {<<>>, <<"nic_uplift">>}

ItemInit ==
    /\ NoProcessorState
    /\ NoLineState
    /\ NoMapState
    /\ NoRateState
    /\ NoClaimState
    /\ cost_item = None

\* CostLineItem.objects.create(...): eligible_amount starts at its default
CreateItem(type, connected, is_excluded, gross_amount, r_and_d_percentage, tags) ==
    /\ cost_item = None
    /\ cost_item' = Row(BeforeSave([ type |-> type,
                                     connected |-> connected,
                                     is_excluded |-> is_excluded,
                                     gross_amount |-> gross_amount,
                                     r_and_d_percentage |-> r_and_d_percentage,
                                     eligible_amount |-> 0,
                                     tags |-> TagsList(tags) ]))
    /\ UNCHANGED <<procVars, lineVars, mapVars, rateVars, claimVars>>

\* the fields set anew on the stored item, then save()
EditItem(type, connected, is_excluded, gross_amount, r_and_d_percentage) ==
    /\ cost_item # None
    /\ cost_item' = Row(BeforeSave([ cost_item EXCEPT
                                       !.type = type,
                                       !.connected = connected,
                                       !.is_excluded = is_excluded,
                                       !.gross_amount = gross_amount,
                                       !.r_and_d_percentage = r_and_d_percentage ]))
    /\ UNCHANGED <<procVars, lineVars, mapVars, rateVars, claimVars>>

ItemNext ==
    \/ \E type \in ItemTypes, connected \in BOOLEAN, is_excluded \in BOOLEAN,
          gross_amount \in ItemGross, r_and_d_percentage \in ItemPercentages,
          tags \in ItemTags :
          CreateItem(type, connected, is_excluded, gross_amount, r_and_d_percentage, tags)
    \/ \E type \in ItemTypes, connected \in BOOLEAN, is_excluded \in BOOLEAN,
          gross_amount \in ItemGross, r_and_d_percentage \in ItemPercentages :
          EditItem(type, connected, is_excluded, gross_amount, r_and_d_percentage)

SpecItem == ItemInit /\ [][ItemNext]_vars

---------------------------------------------------------------------------
(* The claim views (claims/views.py) over one stored Claim and its related
   rows.  claim holds the Claim row with its latest attachment and its cost
   categories; line_items holds its CostLineItem rows.  Dates are day
   numbers; claim.total_costs, claim.credit_amount and the cost categories
   are in pence; the qualifying_expenditure the views assign to the claim
   object is in 1/100000 pound and is no column of the Claim table, so it
   lives in response only *)

\* Claim.STATUS_CHOICES
STATUS_CHOICES == {"draft", "submitted", "in_review", "approved", "rejected", "completed"}

\* accounting period dates the forms carry: a new claim with periods of 400
\* days, an update also with periods of 200 days
CreateDates == {0, 400}
ClaimDates == CreateDates \cup {200}

\* abs((end_date - start_date).days) < 365
minimum_period_days == 365

\* Decimal('0.138') in 1/1000 and Decimal('0.33') in 1/100, as process_claim has them
process_claim_nic_rate == 138
process_claim_credit_rate == 33

\* file types the upload form can carry
UploadTypes == {"staff", "epw"}

\* the files uploaded: pay tables with one row for each subject, in name
\* order (aggregation of several rows is the processor's business), a table
\* to be mapped, a table with no subject column, a file that cannot be read,
\* a file of another format
ClaimTables ==
    { [columns |-> PayColumns, rows |-> rs] :
        rs \in { q \in SeqsUpTo(RowsOver(PayColumns), MaxRows) :
                   \A i \in DOMAIN q : \A j \in DOMAIN q :
                       i < j => NameIndex(q[i]["Name"]) < NameIndex(q[j]["Name"]) } }

UploadedFiles ==
    ClaimTables
    \cup { [columns |-> SalaryColumns, rows |-> <<r>>] :
              r \in {q \in SalaryRows : q["Name"] = NameOrder[1]} }
    \cup { [columns |-> NoNameColumns, rows |-> <<r>>] : r \in RowsOver(NoNameColumns) }
    \cup { [unreadable |-> "empty"], [unreadable |-> "unsupported"] }

\* the mapping_ entries of the posted form
PostedMappings == { <<>>, << <<"Gross", "Salary">> >> }

Response(op, messages) == [op |-> op, messages |-> messages, qualifying_expenditure |-> None]

ResponseWith(op, messages, qualifying_expenditure) ==
    [op |-> op, messages |-> messages,
     qualifying_expenditure |-> [value |-> qualifying_expenditure]]

ClaimInit ==
    /\ NoProcessorState
    /\ NoLineState
    /\ NoMapState
    /\ NoRateState
    /\ NoItemState
    /\ claim = None
    /\ line_items = <<>>
    /\ saved = None
    /\ response = Response("none", <<>>)
    /\ db_rejects_null \in BOOLEAN

NewClaim(start_date, end_date) ==
    [ status |-> "draft",
      accounting_period_start |-> start_date,
      accounting_period_end |-> end_date,
      total_costs |-> 0,
      credit_amount |-> 0,
      attachment |-> None,
      cost_categories |-> {} ]

\* claim_create, POST with every required field and valid dates
ClaimCreate(start_date, end_date) ==
    /\ claim = None
    /\ IF start_date >= end_date
       THEN /\ response' = Response("claim_create", <<"End date must be after start date.">>)
            /\ UNCHANGED claim
       ELSE /\ claim' = NewClaim(start_date, end_date)
            /\ response' = Response("claim_create", <<"created successfully">>)
    /\ UNCHANGED <<line_items, saved, db_rejects_null>>
    /\ UNCHANGED <<procVars, lineVars, mapVars, rateVars, itemVars>>

Abs(n) == IF n < 0 THEN -n ELSE n

\* claim_update, POST with every required field and valid dates: the first
\* check leaves its message and goes on to the second
ClaimUpdate(start_date, end_date) ==
    /\ claim # None
    /\ LET first == IF start_date >= end_date
                    THEN <<"End date must be after start date.">> ELSE <<>>
       IN  IF Abs(end_date - start_date) < minimum_period_days
           THEN /\ response' = Response("claim_update",
                                  first \o <<"Accounting Period must be at least 12 months.">>)
                /\ UNCHANGED claim
           ELSE /\ claim' = [ claim EXCEPT !.accounting_period_start = start_date,
                                           !.accounting_period_end = end_date ]
                /\ response' = Response("claim_update", first \o <<"updated successfully">>)
    /\ UNCHANGED <<line_items, saved, db_rejects_null>>
    /\ UNCHANGED <<procVars, lineVars, mapVars, rateVars, itemVars>>

\* upload_data, POST with a file and a file type: the attachment is stored
\* unless the file name has another extension than .xlsx or .csv
UploadData(f, ft) ==
    /\ claim # None
    /\ IF f = [unreadable |-> "unsupported"]
       THEN /\ response' = Response("upload_data", <<"Unsupported file format.">>)
            /\ UNCHANGED claim
       ELSE /\ claim' = [ claim EXCEPT !.attachment = [file |-> f, file_type |-> ft] ]
            /\ response' = Response("upload_data", <<"File uploaded successfully!">>)
    /\ UNCHANGED <<line_items, saved, db_rejects_null>>
    /\ UNCHANGED <<procVars, lineVars, mapVars, rateVars, itemVars>>

\* the instance CostLineItem.objects.create(...) builds from one result item
NewLineItem(item_data, ft) ==
    [ name |-> item_data.employee_name,
      type |-> IF item_data.is_epw THEN "epw" ELSE ft,
      gross_amount |-> item_data.gross_cost,
      r_and_d_percentage |-> item_data.rd_percentage,
      eligible_amount |-> item_data.qualifying_cost * 100,
      is_excluded |-> item_data.excluded,
      exclusion_reason |-> item_data.exclusion_reason,
      connected |-> item_data.epw_connected,
      tags |-> TagsDict([ er_ni_amount |-> item_data.er_ni_amount,
                          er_pension_amount |-> item_data.er_pension_amount,
                          bonus_amount |-> item_data.bonus_amount,
                          pilon_amount |-> item_data.pilon_amount ]) ]

\* the rows one pass of the loop adds: none when save() raises, and none when
\* the exclusion_reason is None and its column refuses NULL (the reason is
\* None exactly when the item is not excluded); the except clause goes on to
\* the next item
CreatedRows(item_data, ft, rejects_null) ==
    LET self == BeforeSave(NewLineItem(item_data, ft))
    IN  IF Raised(self) THEN <<>>
        ELSE IF rejects_null /\ ~item_data.excluded THEN <<>>
        ELSE << Row(self) >>

\* _save_processed_line_items: the line items of the claim after the call
SavedLineItems(results, ft, rejects_null) ==
    LET upto[i \in 0..Len(results.line_items)] ==
            IF i = 0 THEN <<>>
            ELSE upto[i - 1] \o CreatedRows(results.line_items[i], ft, rejects_null)
    IN  upto[Len(results.line_items)]

\* the qualifying costs of the result items that are, or are not, EPW
KindCosts(results, is_epw) ==
    [k \in DOMAIN results.line_items |->
        IF results.line_items[k].is_epw = is_epw
        THEN results.line_items[k].qualifying_cost ELSE 0]

\* _update_cost_categories: one category per kind of result item
ResultCategories(results) ==
    { [ category |-> IF is_epw THEN "epw" ELSE "staff",
        total_cost |-> SumSeq(KindCosts(results, is_epw)),
        eligible_cost |-> SumSeq(KindCosts(results, is_epw)) ] :
        is_epw \in {results.line_items[k].is_epw : k \in DOMAIN results.line_items} }

\* column_mapping, POST: load the latest attachment, rename, calculate, store
\* the line items, and mark the claim; any exception ends in a message
ColumnMappingView(mc) ==
    /\ claim # None
    /\ claim.attachment # None
    /\ LET f == claim.attachment.file
           ft == claim.attachment.file_type
       IN  IF ~IsTable(f)
           THEN /\ response' = Response("column_mapping", <<"Failed to load file data.">>)
                /\ UNCHANGED <<claim, line_items, saved>>
           ELSE LET d == RenameTable(f, column_mapping(f.columns, mc))
                IN  IF CalculateError(d) # None
                    THEN /\ response' = Response("column_mapping", <<"Error processing file">>)
                         /\ UNCHANGED <<claim, line_items, saved>>
                    ELSE LET results == calculate_rd_costs(d, None)
                         IN  /\ line_items' = SavedLineItems(results, ft, db_rejects_null)
                             /\ saved' = [results |-> results, file_type |-> ft]
                             /\ claim' = [ claim EXCEPT
                                             !.cost_categories = ResultCategories(results),
                                             !.total_costs = results.total_costs * 100,
                                             !.status = "processing" ]
                             /\ response' = ResponseWith("column_mapping",
                                                <<"File processed successfully!">>,
                                                results.total_qualifying_expenditure)
    /\ UNCHANGED db_rejects_null
    /\ UNCHANGED <<procVars, lineVars, mapVars, rateVars, itemVars>>

\* amount x rate / 100000 rounded to the nearest integer, ties to the even
\* one, for a rate in 1/100: the amount is split to keep the product small
RoundedShare(amount, rate) ==
    LET whole == amount \div 100000
        rest == amount % 100000
        q == (rest * rate) \div 100000
        r == (rest * rate) % 100000
        low == whole * rate + q
    IN  IF 2 * r < 100000 THEN low
        ELSE IF 2 * r > 100000 THEN low + 1
        ELSE IF low % 2 = 0 THEN low ELSE low + 1

\* eligible amounts of the stored items in pence
EligiblePence(item) == item.eligible_amount \div 100

\* item.gross_amount for item in line_items
GrossAmounts(items) == [k \in DOMAIN items |-> items[k].gross_amount]

\* item.eligible_amount for item in line_items if not item.is_excluded
EligibleAmounts(items) ==
    [k \in DOMAIN items |-> IF ~items[k].is_excluded THEN EligiblePence(items[k]) ELSE 0]

\* ... if item.type == 'staff' and not item.is_excluded
StaffEligibleAmounts(items) ==
    [k \in DOMAIN items |->
        IF items[k].type = "staff" /\ ~items[k].is_excluded
        THEN EligiblePence(items[k]) ELSE 0]

\* process_claim, POST: the totals of the stored line items, the uplift on
\* the staff items, the credit, and the claim marked as submitted
ProcessClaim ==
    /\ claim # None
    /\ IF line_items = <<>>
       THEN /\ response' = Response("process_claim", <<"No line items found.">>)
            /\ UNCHANGED claim
       ELSE LET total_costs == SumSeq(GrossAmounts(line_items))
                qualifying_expenditure == SumSeq(EligibleAmounts(line_items))
                staff_costs == SumSeq(StaffEligibleAmounts(line_items))
                total_qualifying_with_nic ==
                    qualifying_expenditure * 1000 + staff_costs * process_claim_nic_rate
            IN  /\ claim' = [ claim EXCEPT
                                !.total_costs = total_costs * 100,
                                !.credit_amount =
                                    RoundedShare(total_qualifying_with_nic,
                                                 process_claim_credit_rate),
                                !.status = "submitted" ]
                /\ response' = ResponseWith("process_claim",
                                            <<"Claim processed successfully!">>,
                                            total_qualifying_with_nic)
    /\ UNCHANGED <<line_items, saved, db_rejects_null>>
    /\ UNCHANGED <<procVars, lineVars, mapVars, rateVars, itemVars>>

\* the items of one type, or of neither 'staff' nor 'epw'
OfCategory(items, category) ==
    SelectSeq(items, LAMBDA item :
        IF category = "other" THEN item.type \notin {"staff", "epw"} ELSE item.type = category)

\* _recalculate_claim_totals: the categories and totals from the stored items
RecalculatedCategories(items) ==
    { [ category |-> c,
        total_cost |-> SumSeq(GrossAmounts(OfCategory(items, c))) * 100,
        eligible_cost |-> SumSeq(EligibleAmounts(OfCategory(items, c))) ] :
        c \in {k \in {"staff", "epw", "other"} : OfCategory(items, k) # <<>>} }

\* line_item_delete, POST: the item goes and the totals are recalculated
LineItemDelete(i) ==
    /\ claim # None
    /\ i \in DOMAIN line_items
    /\ LET remaining == SubSeq(line_items, 1, i - 1) \o SubSeq(line_items, i + 1, Len(line_items))
       IN  /\ line_items' = remaining
           /\ claim' = [ claim EXCEPT
                           !.cost_categories = RecalculatedCategories(remaining),
                           !.total_costs = SumSeq(GrossAmounts(remaining)) * 100 ]
           /\ response' = ResponseWith("line_item_delete", <<"deleted successfully!">>,
                                       SumSeq(EligibleAmounts(remaining)) * 1000)
    /\ UNCHANGED <<saved, db_rejects_null>>
    /\ UNCHANGED <<procVars, lineVars, mapVars, rateVars, itemVars>>

ClaimNext ==
    \/ \E start_date \in CreateDates, end_date \in CreateDates : ClaimCreate(start_date, end_date)
    \/ \E start_date \in ClaimDates, end_date \in ClaimDates : ClaimUpdate(start_date, end_date)
    \/ \E f \in UploadedFiles, ft \in UploadTypes : UploadData(f, ft)
    \/ \E mc \in PostedMappings : ColumnMappingView(mc)
    \/ ProcessClaim
    \/ \E i \in 1..MaxRows : LineItemDelete(i)

SpecClaim == ClaimInit /\ [][ClaimNext]_vars

---------------------------------------------------------------------------
(* Properties of _process_line_item (checked under SpecLine) *)

Processed == line_item # None

\* C1: the line item _process_line_item produces has
\* qualifying_cost <= eligible_amount, whatever fraction the override, the
\* data or the default supplies.
C1_QualifyingWithinEligible ==
    Processed => line_item.qualifying_cost <= line_item.eligible_amount * 100

\* C2: for an unconnected externally-provided worker, qualifying_cost is
\* min(eligible x rd_fraction, eligible x cap), hence at most eligible x cap;
\* gross 1000 at fraction 1.0 gives 650.
C2_UnconnectedEpwCapped ==
    (Processed /\ line_item.is_epw /\ ~line_item.epw_connected) =>
        LET e == line_item.eligible_amount
        IN  /\ line_item.qualifying_cost =
                 Min(e * line_item.rd_percentage, e * epw_cap_percentage)
            /\ line_item.qualifying_cost <= e * epw_cap_percentage
            /\ (e = 1000 /\ line_item.rd_percentage = 100) =>
                   line_item.qualifying_cost = 65000

C2_Witness ==
    /\ Processed
    /\ line_item.is_epw /\ ~line_item.epw_connected
    /\ line_item.gross_cost = 1000 /\ line_item.eligible_amount = 1000
    /\ line_item.rd_percentage = 100
    /\ line_item.qualifying_cost = 65000

\* C3: for ordinary staff and for a connected EPW no cap is applied:
\* qualifying_cost is exactly eligible x rd_fraction.
C3_NoCapForStaffOrConnected ==
    (Processed /\ (~line_item.is_epw \/ line_item.epw_connected)) =>
        line_item.qualifying_cost = line_item.eligible_amount * line_item.rd_percentage

\* C5: the fraction applied is the override of the subject when the mapping
\* has one (whatever its value), else the record's own fraction when it
\* is > 0, else the default 0.8.
C5_FractionPriority ==
    Processed =>
        line_item.rd_percentage =
            IF row["employee_name"] \in DOMAIN employee_overrides
            THEN employee_overrides[row["employee_name"]]
            ELSE IF "rd_percentage" \in DOMAIN row /\ row["rd_percentage"] > 0
                 THEN row["rd_percentage"]
                 ELSE 80

\* all three sources present, and the override (a zero) wins
C5_Witness ==
    /\ Processed
    /\ row["employee_name"] \in DOMAIN employee_overrides
    /\ employee_overrides[row["employee_name"]] = 0
    /\ "rd_percentage" \in DOMAIN row /\ row["rd_percentage"] = 50
    /\ line_item.rd_percentage = 0

\* C7: eligible_amount is gross + employer NI + employer pension, and a
\* record processed again with only its bonus or PILON amount changed keeps
\* its eligible_amount and its qualifying_cost.
C7_BonusPilonOutsideBase ==
    Processed =>
        /\ line_item.eligible_amount =
             row["gross_cost"] + row["er_ni_amount"] + row["er_pension_amount"]
        /\ prev_item # None =>
             /\ line_item.eligible_amount = prev_item.eligible_amount
             /\ line_item.qualifying_cost = prev_item.qualifying_cost

C7_Witness ==
    /\ Processed /\ prev_item # None
    /\ prev_item.bonus_amount = 0 /\ line_item.bonus_amount = 200
    /\ prev_item.pilon_amount # line_item.pilon_amount
    /\ line_item.eligible_amount = 1000
    /\ line_item.qualifying_cost > 0

\* C8 as stated: excluded_amount is bonus + termination payment, the item is
\* flagged exactly when that is > 0, and the reason has one entry per
\* contributing component, PILON before Bonus; none when both are zero.
C8_ExcludedIsSum ==
    Processed =>
        /\ line_item.excluded_amount = line_item.bonus_amount + line_item.pilon_amount
        /\ line_item.excluded <=> line_item.excluded_amount > 0
        /\ (line_item.bonus_amount = 0 /\ line_item.pilon_amount = 0) =>
               (~line_item.excluded /\ line_item.exclusion_reason = None)

Positive(x) == IF x > 0 THEN x ELSE 0

\* C8: excluded_amount is the sum of the components (bonus, termination
\* payment) that are > 0; the item is flagged exactly when that sum is > 0;
\* the reason has one entry per component that is > 0, PILON before Bonus,
\* and there is no reason and no flag when neither is > 0.
C8_ExcludedIsSumOfPositive ==
    Processed =>
        LET b == line_item.bonus_amount
            pl == line_item.pilon_amount
            reason == line_item.exclusion_reason
        IN  /\ line_item.excluded_amount = Positive(b) + Positive(pl)
            /\ line_item.excluded <=> line_item.excluded_amount > 0
            /\ (b > 0 /\ pl > 0) =>
                   reason = << <<"PILON", pl>>, <<"Bonus", b>> >>
            /\ (b > 0 /\ pl <= 0) => reason = << <<"Bonus", b>> >>
            /\ (b <= 0 /\ pl > 0) => reason = << <<"PILON", pl>> >>
            /\ (b <= 0 /\ pl <= 0) => (~line_item.excluded /\ reason = None)

C8_Witness ==
    /\ Processed
    /\ line_item.bonus_amount = 200 /\ line_item.pilon_amount = 300
    /\ line_item.excluded_amount = 500
    /\ line_item.excluded
    /\ Len(line_item.exclusion_reason) = 2

---------------------------------------------------------------------------
(* Properties of aggregate_employee_data and calculate_rd_costs
   (checked under Spec) *)

Calculated == ret.op = "calculate_rd_costs" /\ ret.raised = ""

Aggregated == ret.op = "aggregate_employee_data" /\ ret.raised = ""

QualifyingCosts(items) == [i \in DOMAIN items |-> items[i].qualifying_cost]

\* C4: after a successful calculate_rd_costs,
\* total_qualifying_expenditure = staff_costs_with_nic + epw_costs and
\* staff_costs_with_nic = staff_costs x (1 + nic_uplift_rate) exactly: the
\* uplift reaches the staff subtotal only.
C4_TotalsWithNicUplift ==
    Calculated =>
        /\ processed_results = ret.value
        /\ ret.value.staff_costs_with_nic = ret.value.staff_costs * 1138
        /\ ret.value.total_qualifying_expenditure =
             ret.value.staff_costs_with_nic + ret.value.epw_costs * 1000

\* one subject, one row: 1150 eligible at 0.9 is 1035, uplifted to 1177.83
C4_Witness ==
    /\ Calculated
    /\ Len(ret.value.line_items) = 1
    /\ ret.value.staff_costs = 103500
    /\ ret.value.staff_costs_with_nic = 117783000
    /\ ret.value.total_qualifying_expenditure = 117783000

\* C6: a calculate_rd_costs call repeating the previous one (same data, same
\* overrides) returns the same totals and the same line items in the same
\* order, and leaves the same processed_results.
C6_RepeatedRunIdentical ==
    (ret.op = "calculate_rd_costs" /\ ret.repeats) =>
        /\ ret.raised = ""
        /\ ret.value = ret.before
        /\ processed_results = ret.before

C6_Witness ==
    /\ ret.op = "calculate_rd_costs" /\ ret.repeats
    /\ Len(ret.value.line_items) = 2
    /\ ret.value.qualifying_rd_costs > 0
    /\ ret.before = ret.value

\* C9: an item flagged excluded still has the qualifying_cost its
\* eligible_amount, fraction and cap give, and the staff and EPW subtotals
\* add up the qualifying_cost of every item, flagged or not.
C9_ExclusionKeepsQualifying ==
    Calculated =>
        LET items == ret.value.line_items
        IN  /\ \A i \in DOMAIN items :
                 items[i].excluded =>
                    items[i].qualifying_cost =
                        IF items[i].is_epw
                        THEN Min(items[i].eligible_amount * items[i].rd_percentage,
                                 items[i].eligible_amount * epw_cap_percentage)
                        ELSE items[i].eligible_amount * items[i].rd_percentage
            /\ ret.value.staff_costs + ret.value.epw_costs = SumSeq(QualifyingCosts(items))

C9_Witness ==
    /\ Calculated
    /\ \E i \in DOMAIN ret.value.line_items :
         /\ ret.value.line_items[i].excluded
         /\ ret.value.line_items[i].qualifying_cost > 0
         /\ ret.value.staff_costs >= ret.value.line_items[i].qualifying_cost

\* the position in the table of the last row of a subject
LastRowOf(d, name) ==
    CHOOSE i \in DOMAIN d.rows :
        /\ d.rows[i]["Name"] = name
        /\ \A j \in DOMAIN d.rows : d.rows[j]["Name"] = name => j <= i

\* C10: the aggregated fraction of a subject is the fraction of the last row
\* of that subject in the table's row order: 0.5 then 0.9 gives 0.9.
C10_LastRowFraction ==
    (Aggregated /\ "R&D %" \in data.columns) =>
        \A i \in DOMAIN ret.value :
            ret.value[i].rd_percentage =
                data.rows[LastRowOf(data, ret.value[i].employee_name)]["R&D %"]

C10_Witness ==
    /\ Aggregated /\ "R&D %" \in data.columns
    /\ Len(data.rows) = 2
    /\ data.rows[1]["Name"] = "Jane" /\ data.rows[1]["R&D %"] = 50
    /\ data.rows[2]["Name"] = "Jane" /\ data.rows[2]["R&D %"] = 90
    /\ Len(ret.value) = 1
    /\ ret.value[1].rd_percentage = 90

\* the total of one column over the rows of one subject
RowsTotal(d, name, col) ==
    LET rows == {i \in DOMAIN d.rows : d.rows[i]["Name"] = name}
        total[S \in SUBSET rows] ==
            IF S = {} THEN 0
            ELSE LET i == CHOOSE j \in S : TRUE
                 IN  d.rows[i][col] + total[S \ {i}]
    IN  total[rows]

\* a table aggregation can run over: a subject column, a date column, and
\* numbers in every amount cell
NumericTable(d) ==
    /\ d # None
    /\ {"Name", "Date"} \subseteq d.columns
    /\ TextCells(d) = {}

\* C11 as stated: each of the five amounts of each group is the sum of the
\* field over the group's rows, and whichever of the five columns the table
\* lacks counts as zero instead of failing the aggregation.
C11_AbsentColumnsAreZero ==
    (ret.op = "aggregate_employee_data" /\ NumericTable(data)) =>
        /\ ret.raised = ""
        /\ \A i \in DOMAIN ret.value :
             LET rec == ret.value[i]
                 total(col) == IF col \in data.columns
                               THEN RowsTotal(data, rec.employee_name, col) ELSE 0
             IN  /\ rec.gross_cost = total("Gross")
                 /\ rec.er_ni_amount = total("ErNI")
                 /\ rec.er_pension_amount = total("ErPen")
                 /\ rec.bonus_amount = total("Bonus")
                 /\ rec.pilon_amount = total("PILON")

\* C11: on a table of numbers with the Gross, ErNI and ErPen columns, each of
\* the five amounts of each group is the sum of the field over the group's
\* rows, an absent Bonus or PILON column counting as zero for every group;
\* when Gross, ErNI or ErPen is absent the aggregation of a table that has
\* rows fails with a KeyError.
C11_SumsWithOptionalBonusPilon ==
    (ret.op = "aggregate_employee_data" /\ NumericTable(data)) =>
        IF {"Gross", "ErNI", "ErPen"} \subseteq data.columns
        THEN /\ ret.raised = ""
             /\ \A i \in DOMAIN ret.value :
                  LET rec == ret.value[i]
                      optional(col) == IF col \in data.columns
                                       THEN RowsTotal(data, rec.employee_name, col) ELSE 0
                  IN  /\ rec.gross_cost = RowsTotal(data, rec.employee_name, "Gross")
                      /\ rec.er_ni_amount = RowsTotal(data, rec.employee_name, "ErNI")
                      /\ rec.er_pension_amount = RowsTotal(data, rec.employee_name, "ErPen")
                      /\ rec.bonus_amount = optional("Bonus")
                      /\ rec.pilon_amount = optional("PILON")
        ELSE IF data.rows = <<>> THEN ret.raised = "" /\ ret.value = <<>>
        ELSE ret.raised = "KeyError"

\* two rows of one subject summed, on a table without Bonus and PILON
C11_Witness ==
    /\ Aggregated
    /\ data.columns = RequiredColumns \cup {"R&D %"}
    /\ Len(data.rows) = 2
    /\ data.rows[1]["Name"] = "Bob" /\ data.rows[2]["Name"] = "Bob"
    /\ Len(ret.value) = 1
    /\ ret.value[1].gross_cost = 2000
    /\ ret.value[1].er_ni_amount = 200
    /\ ret.value[1].bonus_amount = 0
    /\ ret.value[1].pilon_amount = 0

\* C12: calculate_rd_costs and aggregate_employee_data on a processor on
\* which no load_data has succeeded raise the no-data ValueError, whatever
\* failed load_data and apply_column_mapping calls came before, and
\* processed_results is still empty.
C12_NoDataError ==
    (~loaded /\ ret.op \in {"calculate_rd_costs", "aggregate_employee_data"}) =>
        /\ ret.raised = "ValueError"
        /\ processed_results = EmptyDict

\* a calculation refused on a processor whose file cannot be read
C12_Witness ==
    /\ ~loaded
    /\ file \in UnreadableFiles
    /\ ret.op = "calculate_rd_costs"
    /\ ret.raised = "ValueError"
    /\ processed_results = EmptyDict

\* C13: a calculate_rd_costs call that fails (a missing column, an amount
\* that is no number) returns nothing and leaves processed_results as it was
\* before the call.
C13_FailedRunChangesNothing ==
    [][ (ret'.op = "calculate_rd_costs" /\ ret'.raised # "") =>
            /\ ret'.value = None
            /\ processed_results' = processed_results ]_vars

\* a run that failed on the amounts of the second subject, after the first
\* subject had been processed
C13_Witness ==
    /\ ret.op = "calculate_rd_costs"
    /\ ret.raised = "InvalidOperation"
    /\ FailingIndex(data) = 2
    /\ ret.value = None
    /\ processed_results = EmptyDict

\* C14: aggregate_employee_data on a table without the 'Name' column fails
\* with a KeyError and returns no records.
C14_NoNameColumnFails ==
    (ret.op = "aggregate_employee_data" /\ data # None /\ "Name" \notin data.columns) =>
        /\ ret.raised = "KeyError"
        /\ "value" \notin DOMAIN ret

C14_Witness ==
    /\ ret.op = "aggregate_employee_data"
    /\ data # None
    /\ data.columns = NoNameColumns
    /\ data.rows # <<>>
    /\ ret.raised = "KeyError"

C18_AuditTrailOfLastRun ==
    ret.op = "generate_audit_trail" =>
        IF last_run = None THEN ret.value = <<>>
        ELSE LET items == last_run.line_items
                 n == Len(items)
             IN  /\ Len(ret.value) = n + 1
                 /\ ret.value[1].action = "calculation_started"
                 /\ ret.value[1].details = <<"Processing", n, "line items">>
                 /\ \A i \in 1..n :
                      LET entry == ret.value[i + 1]
                      IN  /\ entry.action = "line_item_processed"
                          /\ entry.employee = items[i].employee_name
                          /\ entry.gross_cost = [float |-> items[i].gross_cost]
                          /\ entry.qualifying_cost = [float |-> items[i].qualifying_cost]
                          /\ entry.rd_percentage = items[i].rd_percentage
                          /\ entry.excluded = items[i].excluded
                          /\ entry.exclusion_reason = items[i].exclusion_reason

\* the trail of a run over two subjects, one of them with an excluded bonus
C18_Witness ==
    /\ ret.op = "generate_audit_trail"
    /\ last_run # None
    /\ Len(last_run.line_items) = 2
    /\ Len(ret.value) = 3
    /\ ret.value[2].employee = "Bob" /\ ret.value[2].excluded
    /\ ret.value[3].employee = "Jane" /\ ~ret.value[3].excluded

\* C19: a generate_audit_trail call leaves data, rules and processed_results
\* as they were.
C19_AuditTrailObservesOnly ==
    [][ ret'.op = "generate_audit_trail" =>
            /\ data' = data
            /\ rules' = rules
            /\ processed_results' = processed_results ]_vars

\* a trail taken of stored results, which are still there
C19_Witness ==
    /\ ret.op = "generate_audit_trail"
    /\ processed_results # EmptyDict
    /\ Len(processed_results.line_items) >= 1
    /\ Len(ret.value) = Len(processed_results.line_items) + 1

---------------------------------------------------------------------------
(* Properties of apply_column_mapping (checked under SpecMap) *)

\* the labels the last call found, and the entries naming a label
Found == applied[Len(applied)]
EntriesNaming(label) == {j \in DOMAIN mapping_config : mapping_config[j][2] = label}

\* C15 as stated: every standard field whose column exists has that column
\* renamed to it, the columns no entry names keep their labels, and the call
\* returns True.
C15_EveryFieldRenamed ==
    applied # <<>> =>
        /\ ret.value = TRUE
        /\ \A i \in DOMAIN Found :
             /\ \A j \in EntriesNaming(Found[i]) : columns[i] = mapping_config[j][1]
             /\ EntriesNaming(Found[i]) = {} => columns[i] = Found[i]

\* C15: every column an entry names is renamed to the standard field of the
\* last entry naming it (so a standard field gets its column unless a later
\* entry names the same column), entries naming no column are skipped, the
\* columns no entry names keep their labels, and the call returns True.
C15_LastEntryRenames ==
    applied # <<>> =>
        /\ ret.value = TRUE
        /\ Len(columns) = Len(Found)
        /\ \A i \in DOMAIN Found :
             LET naming == EntriesNaming(Found[i])
             IN  IF naming = {} THEN columns[i] = Found[i]
                 ELSE \E j \in naming :
                        /\ \A k \in naming : k <= j
                        /\ columns[i] = mapping_config[j][1]

\* two entries naming one column, and one naming none
C15_Witness ==
    /\ Len(applied) = 1
    /\ applied[1] = <<"Pay", "Salary">>
    /\ mapping_config = << <<"Gross", "Pay">>, <<"ErNI", "Pay">> >>
    /\ columns = <<"ErNI", "Salary">>

\* C16 as stated: for every table and mapping, the second application of
\* the mapping leaves the labels as the first left them.
C16_Idempotent ==
    Len(applied) = 2 => columns = applied[2]

\* no entry's column name is the standard field of another entry
NoChain(mc) == \A i, j \in DOMAIN mc : i # j => mc[i][2] # mc[j][1]

\* C16: when no entry's source column name is the standard field of another
\* entry, the second application of the mapping leaves the labels as the
\* first left them.
C16_IdempotentWithoutChain ==
    (Len(applied) = 2 /\ NoChain(mapping_config)) => columns = applied[2]

\* a mapping that renamed two columns, applied again
C16_Witness ==
    /\ Len(applied) = 2
    /\ NoChain(mapping_config)
    /\ applied[1] = <<"Salary", "Pay">>
    /\ mapping_config = << <<"Gross", "Salary">>, <<"ErNI", "Pay">> >>
    /\ applied[2] = <<"Gross", "ErNI">>
    /\ columns = <<"Gross", "ErNI">>

---------------------------------------------------------------------------
(* Properties of get_r_and_d_rate (checked under SpecRate) *)

\* the rates by the day they take effect, in ascending order
RateTable ==
    << [effective_from |-> 0, rate |-> 145],
       [effective_from |-> rate_change_date, rate |-> 100] >>

\* the rate whose effective_from is the latest one not after start
RateInForce(start) ==
    LET i == CHOOSE k \in DOMAIN RateTable :
                 /\ RateTable[k].effective_from <= start
                 /\ \A j \in DOMAIN RateTable :
                      RateTable[j].effective_from <= start => j <= k
    IN  RateTable[i].rate

\* C20: get_r_and_d_rate returns the rate whose effective_from is the latest
\* date <= the period start, so a period starting on 1 April 2023 gets the
\* 10% that takes effect that day; the credit is eligible_costs at that rate.
C20_LatestRateInForce ==
    /\ r_and_d_rate # None => r_and_d_rate.value = RateInForce(accounting_period_start)
    /\ credit_amount # None =>
           credit_amount.value = eligible_costs * RateInForce(accounting_period_start)

---------------------------------------------------------------------------
(* Further properties of calculate_rd_costs (checked under Spec) *)

\* Scenario A: one staff record, gross 1000, employer NI 100, employer
\* pension 50, fraction 0.8, no bonus and no PILON
ScenarioA ==
    /\ Calculated
    /\ Len(ret.value.line_items) = 1
    /\ ret.value.line_items[1].gross_cost = 1000
    /\ ret.value.line_items[1].er_ni_amount = 100
    /\ ret.value.line_items[1].er_pension_amount = 50
    /\ ret.value.line_items[1].bonus_amount = 0
    /\ ret.value.line_items[1].pilon_amount = 0
    /\ ret.value.line_items[1].rd_percentage = 80
    /\ ~ret.value.line_items[1].is_epw

\* C21 as stated: Scenario A yields eligible 1150, qualifying 920,
\* staff_costs_with_nic 1047.76 and total_qualifying_expenditure 1047.76.
C21_ScenarioA_1047_76 ==
    ScenarioA =>
        /\ ret.value.line_items[1].eligible_amount = 1150
        /\ ret.value.line_items[1].qualifying_cost = 92000
        /\ ret.value.staff_costs_with_nic = 104776000
        /\ ret.value.total_qualifying_expenditure = 104776000

\* C21: Scenario A yields eligible 1150, qualifying 920,
\* staff_costs_with_nic 1046.96 (920 x 1.138) and
\* total_qualifying_expenditure 1046.96.
C21_ScenarioA_1046_96 ==
    ScenarioA =>
        /\ ret.value.line_items[1].eligible_amount = 1150
        /\ ret.value.line_items[1].qualifying_cost = 92000
        /\ ret.value.staff_costs_with_nic = 104696000
        /\ ret.value.total_qualifying_expenditure = 104696000

C21_Witness ==
    /\ ScenarioA
    /\ Len(data.rows) = 1
    /\ ret.overrides = None
    /\ ret.value.total_qualifying_expenditure = 104696000

\* the sum of f over the items
SumOver(items, f(_)) ==
    LET upto[i \in 0..Len(items)] == IF i = 0 THEN 0 ELSE upto[i - 1] + f(items[i])
    IN  upto[Len(items)]

GrossOf(item) == item.gross_cost
QualifyingOf(item) == item.qualifying_cost
StaffQualifyingOf(item) == IF item.is_epw THEN 0 ELSE item.qualifying_cost
EpwQualifyingOf(item) == IF item.is_epw THEN item.qualifying_cost ELSE 0
ExcludedGrossOf(item) == IF item.excluded THEN item.gross_cost ELSE 0

\* C23: after every successful calculate_rd_costs, total_costs is the sum of
\* gross_cost over the returned line items, qualifying_rd_costs the sum of
\* their qualifying_cost, qualifying_rd_costs = staff_costs + epw_costs, and
\* every item is counted in exactly one of the two subtotals.
C23_TotalsFromLineItems ==
    Calculated =>
        LET items == ret.value.line_items
        IN  /\ ret.value.total_costs = SumOver(items, GrossOf)
            /\ ret.value.qualifying_rd_costs = SumOver(items, QualifyingOf)
            /\ ret.value.qualifying_rd_costs = ret.value.staff_costs + ret.value.epw_costs
            /\ ret.value.staff_costs = SumOver(items, StaffQualifyingOf)
            /\ ret.value.epw_costs = SumOver(items, EpwQualifyingOf)

\* a second run, over two subjects one of whom has an excluded bonus
C23_Witness ==
    /\ Calculated
    /\ ret.repeats
    /\ Len(ret.value.line_items) = 2
    /\ ret.value.line_items[1].excluded
    /\ ret.value.total_costs = 2000
    /\ ret.value.qualifying_rd_costs = 184000

\* the rearrangements of the table's rows, and the table rearranged
RowOrders(d) ==
    { p \in [DOMAIN d.rows -> DOMAIN d.rows] : \A i, j \in DOMAIN p : i # j => p[i] # p[j] }
Reordered(d, p) == [d EXCEPT !.rows = [i \in DOMAIN d.rows |-> d.rows[p[i]]]]

\* the fraction of the last row of each subject is the same in both tables
SameLastFractions(d, e) ==
    "R&D %" \in d.columns =>
        \A n \in Names :
            (\E i \in DOMAIN d.rows : d.rows[i]["Name"] = n) =>
                d.rows[LastRowOf(d, n)]["R&D %"] = e.rows[LastRowOf(e, n)]["R&D %"]

\* C29: a successful calculate_rd_costs returns one line item per distinct
\* subject name of the table, in ascending order of name, and the same
\* totals and line items for every rearrangement of the rows that keeps each
\* subject's last-row fraction.
C29_OneItemPerSubjectInOrder ==
    Calculated =>
        LET items == ret.value.line_items
        IN  /\ {items[i].employee_name : i \in DOMAIN items}
                 = {data.rows[i]["Name"] : i \in DOMAIN data.rows}
            /\ \A i, j \in DOMAIN items :
                 i < j => NameIndex(items[i].employee_name) < NameIndex(items[j].employee_name)
            /\ \A p \in RowOrders(data) :
                 SameLastFractions(data, Reordered(data, p)) =>
                     calculate_rd_costs(Reordered(data, p), ret.overrides) = ret.value

\* Jane's row before Bob's, and Bob's item before Jane's
C29_Witness ==
    /\ Calculated
    /\ Len(data.rows) = 2
    /\ "Bonus" \in data.columns
    /\ data.rows[1]["Name"] = "Jane" /\ data.rows[2]["Name"] = "Bob"
    /\ data.rows[1]["Bonus"] = 200 /\ data.rows[2]["Bonus"] = 0
    /\ Len(ret.value.line_items) = 2
    /\ ret.value.line_items[1].employee_name = "Bob"
    /\ ret.value.line_items[2].employee_name = "Jane"
    /\ ret.value.line_items[2].excluded

\* C30 as stated: excluded_costs is the sum of gross_cost over the items
\* flagged excluded, and so is at most total_costs.
C30_ExcludedWithinTotal ==
    Calculated =>
        /\ ret.value.excluded_costs = SumOver(ret.value.line_items, ExcludedGrossOf)
        /\ ret.value.excluded_costs <= ret.value.total_costs

\* C30: excluded_costs is the sum of gross_cost over the items flagged
\* excluded (not of their excluded_amount); it is at most total_costs when
\* no item has a negative gross cost; a flagged item's qualifying_cost is
\* still part of qualifying_rd_costs.
C30_ExcludedIsGrossOfFlagged ==
    Calculated =>
        LET items == ret.value.line_items
        IN  /\ ret.value.excluded_costs = SumOver(items, ExcludedGrossOf)
            /\ (\A i \in DOMAIN items : items[i].gross_cost >= 0) =>
                   ret.value.excluded_costs <= ret.value.total_costs
            /\ ret.value.qualifying_rd_costs = SumOver(items, QualifyingOf)

\* a flagged item counted whole in excluded_costs and, through its
\* qualifying cost, in qualifying_rd_costs
C30_Witness ==
    /\ Calculated
    /\ Len(ret.value.line_items) = 1
    /\ ret.value.line_items[1].excluded
    /\ ret.value.line_items[1].excluded_amount = 200
    /\ ret.value.excluded_costs = 1000
    /\ ret.value.total_costs = 1000
    /\ ret.value.qualifying_rd_costs = 92000

---------------------------------------------------------------------------
(* Properties of CostLineItem.save (checked under SpecItem) *)

Capped(item) == InTags("epw_capped", item.tags)

\* C26: after any sequence of edits and saves of a line item whose tags is a
\* list, the 'epw_capped' tag is only ever on an item of type 'epw' that is not
\* connected: it never remains on an item that has become connected or
\* non-EPW
C26_TagOnlyOnUnconnectedEpw ==
    (cost_item # None /\ Capped(cost_item))
        => (cost_item.type = "epw" /\ ~cost_item.connected)

---------------------------------------------------------------------------
(* Properties of the claim views (checked under SpecClaim) *)

\* the last request was a column_mapping POST that stored its results
JustSaved ==
    /\ response.op = "column_mapping"
    /\ response.messages = <<"File processed successfully!">>

\* the result item of a subject
ResultFor(name) ==
    saved.results.line_items[CHOOSE i \in DOMAIN saved.results.line_items :
                                 saved.results.line_items[i].employee_name = name]

\* C22: after _save_processed_line_items every stored line item carries the
\* engine's values for its subject: eligible_amount equal to qualifying_cost,
\* and the same gross amount, excluded flag and connection flag (stated for
\* a database that stores the items it is given)
C22_PersistedVerbatim ==
    (JustSaved /\ ~db_rejects_null) =>
        \A i \in DOMAIN line_items :
            LET p == line_items[i]
                e == ResultFor(p.name)
            IN  /\ p.eligible_amount = e.qualifying_cost * 100
                /\ p.gross_amount = e.gross_cost
                /\ p.is_excluded = e.excluded
                /\ p.connected = e.epw_connected

\* C25: after _save_processed_line_items the stored line items correspond one
\* to one with the line items of the results, for every file type: no
\* subject of the results is skipped (stated for a database that stores the
\* items it is given)
C25_OneItemPerResult ==
    (JustSaved /\ ~db_rejects_null) =>
        /\ Len(line_items) = Len(saved.results.line_items)
        /\ \A i \in DOMAIN line_items :
              line_items[i].name = saved.results.line_items[i].employee_name

\* C27: the status of the claim is always one of the declared STATUS_CHOICES
C27_StatusDeclared == claim # None => claim.status \in STATUS_CHOICES

\* C28: every stored claim has its accounting period start strictly before
\* its accounting period end
C28_StartBeforeEnd ==
    claim # None => claim.accounting_period_start < claim.accounting_period_end

\* the totals process_claim and _recalculate_claim_totals leave, in
\* 1/100000 pound, from the stored items that are not excluded
NotExcludedEligible(item) == IF ~item.is_excluded THEN EligiblePence(item) * 1000 ELSE 0
NotExcludedStaffUplift(item) ==
    IF item.type = "staff" /\ ~item.is_excluded
    THEN EligiblePence(item) * process_claim_nic_rate ELSE 0
ExcludedEligible(item) == IF item.is_excluded THEN item.eligible_amount ELSE 0

\* C24: a stored line item that is excluded has eligible_amount 0, while a
\* result item of the engine that is excluded keeps its qualifying_cost of
\* eligible_amount x rd_percentage; the totals process_claim and
\* _recalculate_claim_totals compute from the stored items hold nothing for
\* the excluded items, and the engine's qualifying_rd_costs holds the
\* qualifying_cost of every item, the excluded ones included
C24_ExclusionDiffers ==
    /\ \A i \in DOMAIN line_items :
          line_items[i].is_excluded => line_items[i].eligible_amount = 0
    /\ saved # None =>
          /\ \A i \in DOMAIN saved.results.line_items :
                LET e == saved.results.line_items[i]
                IN  e.excluded => /\ e.qualifying_cost = e.eligible_amount * e.rd_percentage
                                  /\ e.qualifying_cost # 0
          /\ saved.results.qualifying_rd_costs = SumOver(saved.results.line_items, QualifyingOf)
    /\ (response.op = "process_claim" /\ response.qualifying_expenditure # None) =>
          /\ response.qualifying_expenditure.value =
                SumOver(line_items, NotExcludedEligible)
                + SumOver(line_items, NotExcludedStaffUplift)
          /\ SumOver(line_items, ExcludedEligible) = 0
    /\ response.op = "line_item_delete" =>
          response.qualifying_expenditure.value = SumOver(line_items, NotExcludedEligible)

\* process_claim has run over an excluded and a counted item, stored from
\* results whose excluded item has a qualifying cost
C24_Witness ==
    /\ response.op = "process_claim"
    /\ response.qualifying_expenditure # None
    /\ \E i \in DOMAIN line_items : line_items[i].is_excluded
    /\ \E i \in DOMAIN line_items :
          ~line_items[i].is_excluded /\ line_items[i].eligible_amount > 0
    /\ \E i \in DOMAIN saved.results.line_items :
          /\ saved.results.line_items[i].excluded
          /\ saved.results.line_items[i].qualifying_cost > 0

====
